---- MODULE Spec2Model ----
(***************************************************************************)
(* Model of download() and getEtag() of coc.nvim's src/model/download.ts.  *)
(*                                                                         *)
(* One invocation of download() is one session.  The state is the closure  *)
(* of the promise executor (dest, extract, extname, finished, timer and    *)
(* the variables of the response callback), the promise itself, the        *)
(* request / response / sink objects of the transport, and the file        *)
(* system.  Every handler the code registers is one action.                *)
(*                                                                         *)
(* Conventions.  A JavaScript string is a sequence of tokens (<<>> is the  *)
(* empty string); a value that may be undefined is <<>> (undefined) or     *)
(* <<v>>; an Error is a record [message, code].                            *)
(***************************************************************************)
EXTENDS Integers, Sequences, FiniteSets, TLC

\* ------------------------------------------------------------------ bounds

\* Largest number of 'data' events one response delivers.
MaxChunks == 2
\* Largest number of ways in which a session differs from the plain one (the
\* default options, a missing dest, a bare 200 response): options changed,
\* a status other than 200, headers present.
MaxChanges == 2

\* --------------------------------------------------------- program constants

\* setTimeout(..., 500) of the connection-reset grace window.
GraceMs == 500
\* setTimeout(..., 100) before resolve(dest).
FinishDelayMs == 100
\* res.statusCode >= 200 && res.statusCode < 300 || res.statusCode === 1223
StatusOkLow == 200
StatusOkHigh == 300
StatusLegacyOk == 1223
\* options.strip ?? 1
DefaultStrip == 1

\* ------------------------------------------------------------ JS values

Undefined == <<>>
Some(v) == <<v>>
IsDefined(m) == m # Undefined
Get(m) == m[1]

Max(S) == CHOOSE x \in S : \A y \in S : y <= x

Err(message, code) == [message |-> message, code |-> code]

\* ------------------------------------------------------------ paths (node:path)

Root == <<"/">>
\* path.isAbsolute(p)
IsAbsolute(p) == Len(p) > 0 /\ p[1] = "/"
\* path.join(dir, name)
PathJoin(dir, name) == dir \o <<"/">> \o name
\* path.extname(p): from the last "." of the last segment to the end; "" when
\* the segment has no "." or only a leading one.
ExtName(p) ==
  LET seps == {i \in 1..Len(p) : p[i] = "/"}
      start == IF seps = {} THEN 1 ELSE Max(seps) + 1
      dots == {i \in (start + 1)..Len(p) : p[i] = "."}
  IN IF dots = {} THEN <<>> ELSE SubSeq(p, Max(dots), Len(p))
\* The directories fs.mkdirSync(p, { recursive: true }) makes sure exist.
Ancestors(p) ==
  {SubSeq(p, 1, i) : i \in {j \in 1..Len(p) : j = Len(p) \/ p[j + 1] = "/"}}

\* ------------------------------------------------------------ inputs

AbsDest == <<"/", "a", "/", "b">>
Dests == {AbsDest, <<>>, <<"rel">>}

\* The file system before the call: nothing of dest exists, dest is a
\* directory, dest is a regular file, only dest's parent exists, dest's
\* parent is a regular file.
FsEmpty == [dirs |-> {Root}, files |-> {}]
FsDir == [dirs |-> {Root, <<"/", "a">>, AbsDest}, files |-> {}]
FsFile == [dirs |-> {Root, <<"/", "a">>}, files |-> {AbsDest}]
FsParent == [dirs |-> {Root, <<"/", "a">>}, files |-> {}]
FsBlocked == [dirs |-> {Root}, files |-> {<<"/", "a">>}]
FileSystems == {FsEmpty, FsDir, FsFile, FsParent, FsBlocked}

\* http.Agent values: a plain agent and a proxying agent (agent.proxy.host).
PlainAgent == [proxy |-> Undefined]
ProxyAgent == [proxy |-> Some([host |-> "proxyhost"])]

TimeoutMs == 3000

UrlPaths == {<<"/", "f">>, <<"/", "f", ".", "zip">>, <<"/", "f", ".", "tgz">>,
             <<"/", "f", ".", "txt">>}

\* DownloadOptions (options.agent, options.timeout, ...), with the url, the
\* token and what the external collaborators answer: resolveRequestOptions'
\* agent and the file system.
DefaultInput ==
  [dest |-> AbsDest, fs |-> FsEmpty, agent |-> Undefined, resolvedAgent |-> Undefined,
   token |-> FALSE, timeout |-> 0, etagAlgorithm |-> Undefined, extract |-> "false",
   strip |-> Undefined, onProgress |-> FALSE, pathname |-> <<"/", "f">>]
AllInputs ==
  [dest : Dests, fs : FileSystems, agent : {Undefined, Some(PlainAgent)},
   resolvedAgent : {Undefined, Some(ProxyAgent)}, token : BOOLEAN,
   timeout : {0, TimeoutMs}, etagAlgorithm : {Undefined, Some("md5")},
   extract : {"false", "true", "untar", "unzip"}, strip : {Undefined, Some(0)},
   onProgress : BOOLEAN, pathname : UrlPaths]
Changes(r, default) == Cardinality({f \in DOMAIN r : r[f] # default[f]})
Inputs == {i \in AllInputs : Changes(i, DefaultInput) <= MaxChanges}

\* url.toString()
Href == "http://host/f"

\* The chunks a 'data' event may carry (Buffers, as sequences of bytes).
Chunks == {<<1>>, <<2, 3>>}

\* What the transport may answer: a status code and the four headers read.
EtagHeaders ==
  {<<"\"", "d", "a", "\"">>, <<"W/", "\"", "d", "a", "\"">>, <<"d", "a">>,
   <<"\"", "D", "A", "\"">>, <<"\"", "\"">>, <<"\"", "d", "a">>}
DispositionHeaders ==
  {[type |-> "attachment", parameters |-> [filename |-> Some(<<"g", ".", "zip">>)]],
   [type |-> "attachment", parameters |-> [filename |-> Some(<<"g", ".", "tgz">>)]],
   [type |-> "inline", parameters |-> [filename |-> Undefined]]}
ContentTypes == {<<"application/zip">>, <<"text/plain">>}
ContentLengths == {<<"3">>, <<"x">>}
StatusCodes == {199, 200, 299, 300, 404, 1223}
Maybe(S) == {Undefined} \cup {Some(v) : v \in S}
DefaultResponse ==
  [statusCode |-> 200, etag |-> Undefined, contentDisposition |-> Undefined,
   contentType |-> Undefined, contentLength |-> Undefined]
AllResponses ==
  [statusCode : StatusCodes, etag : Maybe(EtagHeaders),
   contentDisposition : Maybe(DispositionHeaders), contentType : Maybe(ContentTypes),
   contentLength : Maybe(ContentLengths)]
\* The responses a session with input i may meet.
Responses(i) ==
  {r \in AllResponses :
     Changes(r, DefaultResponse) + Changes(i, DefaultInput) <= MaxChanges}

\* Errors the transport raises on the request: e.code is ECONNRESET or not.
ConnReset == Err("socket hang up", "ECONNRESET")
ConnRefused == Err("connect ECONNREFUSED", "ECONNREFUSED")
TransportErrors == {ConnReset, ConnRefused}
\* Errors of the response stream and of the sink.
ResAborted == Err("aborted", "ECONNRESET")
SinkFailure == Err("write failed", "EIO")

\* ------------------------------------------------------------ pure functions

\* header.replace(/^W\//, '')
StripWeak(header) ==
  IF Len(header) > 0 /\ header[1] = "W/" THEN Tail(header) ELSE header
\* header.slice(1, -1)
Slice1(header) == SubSeq(header, 2, Len(header) - 1)
\* A getEtag that does not remove the weak-validator prefix.
getEtagNoStrip(headers) ==
  IF ~IsDefined(headers.etag) THEN Undefined
  ELSE LET header == Get(headers.etag)
       IN IF Len(header) = 0 \/ header[1] # "\"" \/ header[Len(header)] # "\""
          THEN Undefined
          ELSE Some(Slice1(header))
\* getEtag(headers): the header is a string or absent.
getEtag(headers) ==
  IF ~IsDefined(headers.etag) THEN Undefined
  ELSE LET header == StripWeak(Get(headers.etag))
       IN IF Len(header) = 0 \/ header[1] # "\"" \/ header[Len(header)] # "\""
          THEN Undefined
          ELSE Some(Slice1(header))

\* The status test with its upper limit included.
StatusOkInclusive(statusCode) ==
  (statusCode >= StatusOkLow /\ statusCode <= StatusOkHigh) \/ statusCode = StatusLegacyOk
\* (res.statusCode >= 200 && res.statusCode < 300) || res.statusCode === 1223
StatusOk(statusCode) ==
  (statusCode >= StatusOkLow /\ statusCode < StatusOkHigh) \/ statusCode = StatusLegacyOk

\* Number(headers['content-length']): NaN is Undefined.
DigitTokens == <<"0", "1", "2", "3", "4", "5", "6", "7", "8", "9">>
RECURSIVE Decimal(_)
Decimal(str) ==
  IF str = <<>> THEN Some(0)
  ELSE LET ds == {d \in 1..Len(DigitTokens) : DigitTokens[d] = str[Len(str)]}
           rest == Decimal(SubSeq(str, 1, Len(str) - 1))
       IN IF ds = {} \/ ~IsDefined(rest) THEN Undefined
          ELSE Some(Get(rest) * 10 + (CHOOSE d \in ds : TRUE) - 1)
ToNumber(header) == IF IsDefined(header) THEN Decimal(Get(header)) ELSE Undefined

\* A percentage of what remains to be received instead of what was received.
ToFixed1Remaining(c, t) == ((t - c) * 2000 + t) \div (2 * t)
\* (cur / total * 100).toFixed(1), in tenths of a percent.
ToFixed1(c, t) == (c * 2000 + t) \div (2 * t)

\* crypto.createHash / hash.update / hash.digest('hex'): an order-sensitive
\* 8-bit digest, rendered as two lower-case hex digits.
HexTokens == <<"0", "1", "2", "3", "4", "5", "6", "7", "8", "9", "a", "b", "c", "d", "e", "f">>
CreateHash(algorithm) == [algorithm |-> algorithm, state |-> 7]
RECURSIVE HashUpdate(_, _)
HashUpdate(h, chunk) ==
  IF chunk = <<>> THEN h ELSE HashUpdate((h * 31 + Head(chunk)) % 256, Tail(chunk))
HexDigest(h) == <<HexTokens[(h \div 16) + 1], HexTokens[(h % 16) + 1]>>
\* A feed that leaves one-byte chunks out of the hash.
UpdateHashSkipShort(h, chunk) ==
  IF IsDefined(h) /\ Len(chunk) > 1
  THEN Some([Get(h) EXCEPT !.state = HashUpdate(@, chunk)])
  ELSE h
\* Line 109: if (hash) hash.update(chunk)
UpdateHash(h, chunk) ==
  IF IsDefined(h) THEN Some([Get(h) EXCEPT !.state = HashUpdate(@, chunk)]) ELSE h

\* The promise: resolve and reject settle a pending promise and are ignored
\* by a settled one.
Pending == [state |-> "pending", value |-> Undefined, reason |-> Undefined]
\* A reject that a settled promise does not ignore.
RejectOverwriting(p, reason) ==
  [state |-> "rejected", value |-> Undefined, reason |-> Some(reason)]
Resolve(p, value) ==
  IF p.state = "pending"
  THEN [state |-> "fulfilled", value |-> Some(value), reason |-> Undefined]
  ELSE p
Reject(p, reason) ==
  IF p.state = "pending"
  THEN [state |-> "rejected", value |-> Undefined, reason |-> Some(reason)]
  ELSE p

\* ------------------------------------------------------------ state

VARIABLES
  input,          \* url, options, token and collaborators of this invocation
  pc,             \* "start", "thrown" (download threw) or "returned" (the promise)
  thrown,         \* the Error download threw
  fs,             \* the file system: [dirs, files]
  opts,           \* resolveRequestOptions' result: [agent]
  dest,           \* let dest
  extract,        \* let extract: "false", "true", "untar", "unzip"
  extname,        \* let extname
  finished,       \* let finished
  timer,          \* let timer: undefined or the grace timer [e, state, afterFinish]
  listener,       \* the token's listener: "none", "registered", "disposed"
  req,            \* the ClientRequest: [state, destroyed, error, timeout]
  res,            \* the IncomingMessage: undefined or [statusCode, headers...]
  resState,       \* "none", "flowing", "ended", "errored", "unread"
  etag,           \* let etag
  checkEtag,      \* let checkEtag
  total,          \* let total (undefined is NaN)
  cur,            \* let cur
  hash,           \* let hash: undefined or [algorithm, state]
  stream,         \* let stream: undefined or the sink [kind, path, strip]
  streamState,    \* "none", "open", "finished", "errored"
  finishTimer,    \* the setTimeout of line 139: "none", "armed", "fired"
  promise,        \* the promise download returns
  progress,       \* what onProgress was called with, in order
  logged,         \* the percentages given to logger.info instead, in order
  received,       \* the chunks the response delivered, in order
  hashed,         \* the chunks given to hash.update, in order
  written         \* the chunks piped into the sink, in order

locals == <<dest, extract, extname, finished, timer>>
callbackLocals == <<etag, checkEtag, total, cur, hash, stream>>
history == <<progress, logged, received, hashed, written>>
vars ==
  <<input, pc, thrown, fs, opts, dest, extract, extname, finished, timer, listener,
    req, res, resState, etag, checkEtag, total, cur, hash, stream, streamState,
    finishTimer, promise, progress, logged, received, hashed, written>>

NoRequest == [state |-> "none", destroyed |-> FALSE, error |-> Undefined, timeout |-> 0]

\* The state when download is called with one of the given inputs.
InitWith(inputs) ==
  /\ input \in inputs
  /\ pc = "start"
  /\ thrown = Undefined
  /\ fs = input.fs
  /\ opts = [agent |-> Undefined]
  /\ dest = input.dest
  /\ extract = input.extract
  /\ extname = <<>>
  /\ finished = FALSE
  /\ timer = Undefined
  /\ listener = "none"
  /\ req = NoRequest
  /\ res = Undefined
  /\ resState = "none"
  /\ etag = Undefined
  /\ checkEtag = FALSE
  /\ total = Undefined
  /\ cur = 0
  /\ hash = Undefined
  /\ stream = Undefined
  /\ streamState = "none"
  /\ finishTimer = "none"
  /\ promise = Pending
  /\ progress = <<>>
  /\ logged = <<>>
  /\ received = <<>>
  /\ hashed = <<>>
  /\ written = <<>>

Init == InitWith(Inputs)

\* ------------------------------------------------------------ download()

\* fs.existsSync(p)
ExistsSync(f, p) == p \in f.dirs \/ p \in f.files
\* fs.mkdirSync(p, { recursive: true })
MkdirSync(f, p) == [f EXCEPT !.dirs = @ \cup Ancestors(p)]
\* The dest test without the statSync branch of lines 59-63.
DestErrorNoStat(f, d) ==
  IF d = <<>> \/ ~IsAbsolute(d)
  THEN Some(Err("Expect absolute file path for dest option.", ""))
  ELSE Undefined
\* Lines 54-64: the error download throws for this dest, or undefined.
DestError(f, d) ==
  IF d = <<>> \/ ~IsAbsolute(d)
  THEN Some(Err("Expect absolute file path for dest option.", ""))
  ELSE IF ExistsSync(f, d) /\ d \notin f.dirs
       THEN Some(Err("dest exists, but not directory!", ""))
       ELSE Undefined
\* Line 58 when an ancestor of the missing dest is a regular file: mkdirSync
\* throws and download with it.
MkdirError(f, d) ==
  IF ~ExistsSync(f, d) /\ Ancestors(d) \cap f.files # {}
  THEN Some(Err("ENOTDIR: not a directory, mkdir", "ENOTDIR"))
  ELSE Undefined
\* The error lines 54-64 throw, if any.
ThrownError(f, d) ==
  IF IsDefined(DestError(f, d)) THEN DestError(f, d) ELSE MkdirError(f, d)
\* A download that leaves the missing directory to be made later.
EnsureDirNever(f, d) == f
\* Lines 57-58.
EnsureDir(f, d) == IF ~ExistsSync(f, d) THEN MkdirSync(f, d) ELSE f
\* Lines 66-67: if (!opts.agent && options.agent) opts.agent = options.agent
ResolveAgent(resolved, optionsAgent) ==
  IF ~IsDefined(resolved) /\ IsDefined(optionsAgent) THEN optionsAgent ELSE resolved
\* A setTimeout that is not guarded by the test of line 168.
ArmedTimeoutAlways(timeout) == TimeoutMs
\* Lines 168-170: the timeout req.setTimeout arms (0: none).
ArmedTimeout(timeout) == IF timeout # 0 THEN timeout ELSE 0

\* Lines 50-64 when dest is refused or cannot be made: download throws
\* before anything else.
downloadThrows ==
  /\ pc = "start"
  /\ IsDefined(ThrownError(fs, dest))
  /\ pc' = "thrown"
  /\ thrown' = ThrownError(fs, dest)
  /\ UNCHANGED <<input, fs, opts, locals, listener, req, res, resState,
                 callbackLocals, streamState, finishTimer, promise, history>>

\* Lines 50-77 and 148-172: the directory is made, the options are resolved,
\* the listener is registered, the request is opened and ended.
download ==
  /\ pc = "start"
  /\ ~IsDefined(ThrownError(fs, dest))
  /\ pc' = "returned"
  /\ fs' = EnsureDir(fs, dest)
  /\ opts' = [agent |-> ResolveAgent(input.resolvedAgent, input.agent)]
  /\ extname' = ExtName(input.pathname)
  /\ listener' = IF input.token THEN "registered" ELSE "none"
  /\ req' = [state |-> "inflight", destroyed |-> FALSE, error |-> Undefined,
             timeout |-> ArmedTimeout(input.timeout)]
  /\ UNCHANGED <<input, thrown, dest, extract, finished, timer, res, resState,
                 callbackLocals, streamState, finishTimer, promise, history>>

\* ------------------------------------------------------------ the request

\* clearTimeout(timer)
ClearTimeout(t) ==
  IF IsDefined(t) /\ Get(t).state = "armed"
  THEN Some([Get(t) EXCEPT !.state = "cleared"])
  ELSE t
\* A request error handler without the grace window of lines 150-154.
IsGraceCaseNever(o, e) == FALSE
\* Line 150: opts.agent && e['code'] == 'ECONNRESET'
IsGraceCase(o, e) == IsDefined(o.agent) /\ e.code = "ECONNRESET"
\* Line 157: opts.agent && opts.agent.proxy
HasProxy(o) == IsDefined(o.agent) /\ IsDefined(Get(o.agent).proxy)
\* Line 158.
ProxyError(o, e) ==
  Err("Request failed using proxy " \o Get(Get(o.agent).proxy).host \o ": " \o e.message, "")
\* Lines 74 and 166: the errors the request is destroyed with.
AbortError == Err("request aborted", "")
TimeoutError(ms) == Err("request timeout after " \o ToString(ms) \o "ms", "")

\* A handler that forgets the error in the grace case: no timer is armed.
OnReqErrorNoTimer(e) ==
  IF IsGraceCase(opts, e)
  THEN UNCHANGED <<timer, finished, promise>>
  ELSE /\ timer' = ClearTimeout(timer)
       /\ IF HasProxy(opts)
          THEN /\ promise' = Reject(promise, ProxyError(opts, e))
               /\ UNCHANGED finished
          ELSE /\ finished' = TRUE
               /\ promise' = Reject(promise, e)
\* Lines 148-164: req.on('error', e => ...).
OnReqError(e) ==
  IF IsGraceCase(opts, e)
  THEN /\ timer' = Some([e |-> e, state |-> "armed",
                         afterFinish |-> finishTimer = "armed"])
       /\ UNCHANGED <<finished, promise>>
  ELSE /\ timer' = ClearTimeout(timer)
       /\ IF HasProxy(opts)
          THEN /\ promise' = Reject(promise, ProxyError(opts, e))
               /\ UNCHANGED finished
          ELSE /\ finished' = TRUE
               /\ promise' = Reject(promise, e)

\* A destroy that closes the socket and emits no 'error'.
DestroySilently(e) ==
  /\ req' = [req EXCEPT !.destroyed = TRUE,
                        !.error = IF req.destroyed THEN @ ELSE Some(e)]
  /\ UNCHANGED <<timer, finished, promise>>
\* req.destroy(e): a request already destroyed ignores it; otherwise the
\* socket is destroyed and 'error' is emitted on the request with e, before
\* any other event of the session.
Destroy(e) ==
  IF req.destroyed
  THEN UNCHANGED <<req, timer, finished, promise>>
  ELSE /\ req' = [req EXCEPT !.destroyed = TRUE, !.error = Some(e)]
       /\ OnReqError(e)

\* The transport fails: 'error' on the request.
ReqError ==
  /\ pc = "returned"
  /\ ~req.destroyed
  /\ \E e \in TransportErrors :
       /\ req' = [req EXCEPT !.destroyed = TRUE, !.error = Some(e)]
       /\ OnReqError(e)
  /\ UNCHANGED <<input, pc, thrown, fs, opts, dest, extract, extname, listener, res,
                 resState, callbackLocals, streamState, finishTimer, history>>

\* Lines 72-75: the token is cancelled.
Cancel ==
  /\ listener = "registered"
  /\ listener' = "disposed"
  /\ Destroy(AbortError)
  /\ UNCHANGED <<input, pc, thrown, fs, opts, dest, extract, extname, res,
                 resState, callbackLocals, streamState, finishTimer, history>>

\* Lines 165-167: req.on('timeout', ...), once the armed timeout elapses.
ReqTimeout ==
  /\ pc = "returned"
  /\ req.timeout # 0
  /\ ~req.destroyed
  /\ Destroy(TimeoutError(input.timeout))
  /\ UNCHANGED <<input, pc, thrown, fs, opts, dest, extract, extname, listener, res,
                 resState, callbackLocals, streamState, finishTimer, history>>

\* Lines 151-154: the grace timer fires.  It was armed for GraceMs; a finish
\* timer (FinishDelayMs) that was armed before it fires first.
GraceTimerFire ==
  /\ IsDefined(timer)
  /\ Get(timer).state = "armed"
  /\ (Get(timer).afterFinish /\ GraceMs >= FinishDelayMs) => finishTimer # "armed"
  /\ timer' = Some([Get(timer) EXCEPT !.state = "fired"])
  /\ finished' = TRUE
  /\ promise' = Reject(promise, Get(timer).e)
  /\ UNCHANGED <<input, pc, thrown, fs, opts, dest, extract, extname, listener, req,
                 res, resState, callbackLocals, streamState, finishTimer, history>>

\* ------------------------------------------------------------ the response

\* An etag check that is never switched on.
CheckEtagNever(e, etagAlgorithm) == FALSE
\* Line 83: etag && typeof etagAlgorithm === 'string'
CheckEtag(e, etagAlgorithm) == IsDefined(e) /\ Get(e) # <<>> /\ IsDefined(etagAlgorithm)
\* Lines 84-89: the extension, taken from content-disposition when the url has none.
HintExt(ext, headers) ==
  IF ext = <<>> /\ IsDefined(headers.contentDisposition)
  THEN LET filename == Get(headers.contentDisposition).parameters.filename
       IN IF IsDefined(filename) /\ Get(filename) # <<>>
          THEN ExtName(Get(filename))
          ELSE ext
  ELSE ext
\* A detection that tests the '.tgz' extension before the zip signals.
ResolveExtractTgzFirst(mode, ext, headers) ==
  IF mode = "true"
  THEN IF ext = <<".", "tgz">>
       THEN Some("untar")
       ELSE IF ext = <<".", "zip">> \/ headers.contentType = Some(<<"application/zip">>)
            THEN Some("unzip")
            ELSE Undefined
  ELSE Some(mode)
\* Lines 90-99: the mode extract becomes; undefined when none is detected.
ResolveExtract(mode, ext, headers) ==
  IF mode = "true"
  THEN IF ext = <<".", "zip">> \/ headers.contentType = Some(<<"application/zip">>)
       THEN Some("unzip")
       ELSE IF ext = <<".", "tgz">> THEN Some("untar") ELSE Undefined
  ELSE Some(mode)
\* A sink that is the raw file whatever the mode is.
SinkAlwaysFile(mode, dir, ext, strip) ==
  [kind |-> "file", path |-> PathJoin(dir, <<"uuid">> \o ext), strip |-> Undefined]
\* A raw sink whose file name leaves the extension out.
SinkNoExt(mode, dir, ext, strip) ==
  IF mode = "untar"
  THEN [kind |-> "untar", path |-> dir,
        strip |-> Some(IF IsDefined(strip) THEN Get(strip) ELSE DefaultStrip)]
  ELSE IF mode = "unzip"
       THEN [kind |-> "unzip", path |-> dir, strip |-> Undefined]
       ELSE [kind |-> "file", path |-> PathJoin(dir, <<"uuid">>), strip |-> Undefined]
\* Lines 121-129: the sink the response is piped into.
Sink(mode, dir, ext, strip) ==
  IF mode = "untar"
  THEN [kind |-> "untar", path |-> dir,
        strip |-> Some(IF IsDefined(strip) THEN Get(strip) ELSE DefaultStrip)]
  ELSE IF mode = "unzip"
       THEN [kind |-> "unzip", path |-> dir, strip |-> Undefined]
       ELSE [kind |-> "file", path |-> PathJoin(dir, <<"uuid">> \o ext),
             strip |-> Undefined]
\* fs.createWriteStream(p)
CreateWriteStream(f, p) == [f EXCEPT !.files = @ \cup {p}]
BadStatus(statusCode) ==
  Err("Invalid response from " \o Href \o ": " \o ToString(statusCode), "")
UnknownExtract == Err("Unable to detect extract method for " \o Href, "")

\* Lines 78-147: the callback of mod.request, given one of the responses.
ResponseOf(responses) ==
  /\ pc = "returned"
  /\ req.state = "inflight"
  /\ ~req.destroyed
  /\ \E r \in responses :
       /\ res' = Some(r)
       /\ req' = [req EXCEPT !.state = "responded"]
       /\ IF StatusOk(r.statusCode)
          THEN LET ext == HintExt(extname, r)
                   mode == ResolveExtract(extract, ext, r)
               IN /\ etag' = getEtag(r)
                  /\ checkEtag' = CheckEtag(getEtag(r), input.etagAlgorithm)
                  /\ extname' = ext
                  /\ IF ~IsDefined(mode)
                     THEN /\ promise' = Reject(promise, UnknownExtract)
                          /\ resState' = "unread"
                          /\ UNCHANGED <<fs, dest, extract, total, cur, hash, stream,
                                         streamState>>
                     ELSE LET sink == Sink(Get(mode), dest, ext, input.strip)
                          IN /\ extract' = Get(mode)
                             /\ total' = ToNumber(r.contentLength)
                             /\ cur' = 0
                             /\ hash' = IF CheckEtag(getEtag(r), input.etagAlgorithm)
                                        THEN Some(CreateHash(Get(input.etagAlgorithm)))
                                        ELSE Undefined
                             /\ resState' = "flowing"
                             /\ stream' = Some(sink)
                             /\ streamState' = "open"
                             /\ dest' = sink.path
                             /\ fs' = IF sink.kind = "file"
                                      THEN CreateWriteStream(fs, sink.path)
                                      ELSE fs
                             /\ UNCHANGED promise
          ELSE /\ promise' = Reject(promise, BadStatus(r.statusCode))
               /\ resState' = "unread"
               /\ UNCHANGED <<fs, dest, extract, extname, callbackLocals, streamState>>
  /\ UNCHANGED <<input, pc, thrown, opts, finished, timer, listener, finishTimer,
                 history>>

\* The transport answers the request.
Response == ResponseOf(Responses(input))

\* Lines 107-114 and the pipe of lines 123-128: a chunk arrives.  A sink that
\* failed is unpiped, which pauses the response: no 'data' and no 'end' follow.
ResData ==
  /\ resState = "flowing"
  /\ streamState # "errored"
  /\ Len(received) < MaxChunks
  /\ \E chunk \in Chunks :
       /\ received' = Append(received, chunk)
       /\ cur' = cur + Len(chunk)
       /\ hash' = UpdateHash(hash, chunk)
       /\ hashed' = IF IsDefined(hash) THEN Append(hashed, chunk) ELSE hashed
       /\ IF IsDefined(total)
          THEN IF input.onProgress
               THEN /\ progress' = Append(progress, ToFixed1(cur', Get(total)))
                    /\ UNCHANGED logged
               ELSE /\ logged' = Append(logged, ToFixed1(cur', Get(total)))
                    /\ UNCHANGED progress
          ELSE UNCHANGED <<progress, logged>>
       /\ written' = IF streamState = "open" THEN Append(written, chunk) ELSE written
  /\ UNCHANGED <<input, pc, thrown, fs, opts, locals, listener, req, res, resState,
                 etag, checkEtag, total, stream, streamState, finishTimer, promise>>

\* An 'end' handler that leaves the timer alone.
OnResEndKeepTimer(fin, t) == t
\* Lines 116-118: what 'end' makes of timer.
OnResEnd(fin, t) == IF fin THEN t ELSE Undefined
\* Lines 115-120: res.on('end', ...); the pipe then ends the sink.
ResEnd ==
  /\ resState = "flowing"
  /\ streamState # "errored"
  /\ resState' = "ended"
  /\ timer' = OnResEnd(finished, timer)
  /\ UNCHANGED <<input, pc, thrown, fs, opts, dest, extract, extname, finished,
                 listener, req, res, callbackLocals, streamState, finishTimer, promise,
                 history>>

\* Lines 103-105: res.on('error', ...).
ResError ==
  /\ resState = "flowing"
  /\ resState' = "errored"
  /\ promise' = Reject(promise,
                  Err("Unable to connect " \o Href \o ": " \o ResAborted.message, ""))
  /\ UNCHANGED <<input, pc, thrown, fs, opts, locals, listener, req, res,
                 callbackLocals, streamState, finishTimer, history>>

\* ------------------------------------------------------------ the sink

IntegrityError(algorithm) ==
  Err("Etag check failed by " \o algorithm \o ", content not match.", "")

\* A 'finish' handler that does not look at finished.
FinishSkippedNever(fin) == FALSE
\* Line 131: if (finished) return
FinishSkipped(fin) == fin
\* Lines 130-142: stream.on('finish', ...), after the pipe ended the sink.
StreamFinish ==
  /\ streamState = "open"
  /\ resState = "ended"
  /\ streamState' = "finished"
  /\ IF FinishSkipped(finished)
     THEN UNCHANGED <<promise, finishTimer>>
     ELSE IF IsDefined(hash) /\ HexDigest(Get(hash).state) # Get(etag)
          THEN /\ promise' = Reject(promise, IntegrityError(Get(hash).algorithm))
               /\ UNCHANGED finishTimer
          ELSE /\ finishTimer' = "armed"
               /\ UNCHANGED promise
  /\ UNCHANGED <<input, pc, thrown, fs, opts, locals, listener, req, res, resState,
                 callbackLocals, history>>

\* Line 143: stream.on('error', reject).
StreamError ==
  /\ streamState = "open"
  /\ streamState' = "errored"
  /\ promise' = Reject(promise, SinkFailure)
  /\ UNCHANGED <<input, pc, thrown, fs, opts, locals, listener, req, res, resState,
                 callbackLocals, finishTimer, history>>

\* Lines 139-141: the finish timer fires.
FinishTimerFire ==
  /\ finishTimer = "armed"
  /\ finishTimer' = "fired"
  /\ promise' = Resolve(promise, dest)
  /\ UNCHANGED <<input, pc, thrown, fs, opts, locals, listener, req, res, resState,
                 callbackLocals, streamState, history>>

\* ------------------------------------------------------------ specification

Next ==
  \/ downloadThrows
  \/ download
  \/ ReqError
  \/ Cancel
  \/ ReqTimeout
  \/ GraceTimerFire
  \/ Response
  \/ ResData
  \/ ResEnd
  \/ ResError
  \/ StreamFinish
  \/ StreamError
  \/ FinishTimerFire

Spec == Init /\ [][Next]_vars

\* ------------------------------------------------------------ properties

Settled == promise.state # "pending"
Rejected(e) == promise.state = "rejected" /\ promise.reason = Some(e)
GraceFired == IsDefined(timer) /\ Get(timer).state = "fired"

\* C1: the operation is settled at most once.  A settled promise never
\* changes again, whatever completion source fires later (so it never both
\* resolves and rejects and the first settlement is what the caller sees),
\* and a call that threw never settles a promise as well.
C1_SettledAtMostOnce ==
  [][/\ Settled => promise' = promise
     /\ pc = "thrown" => (pc' = "thrown" /\ thrown' = thrown /\ promise' = Pending)]_vars
\* C1 witness: a later completion source met a promise already settled: the
\* grace timer fired after the promise was fulfilled, or the finish timer
\* fired after it was rejected.
C1_Witness ==
  \/ promise.state = "fulfilled" /\ GraceFired
  \/ promise.state = "rejected" /\ finishTimer = "fired"

\* The two ways lines 54-64 refuse a dest, stated on the inputs.
InvalidDest ==
  \/ input.dest = <<>>
  \/ input.dest[1] # "/"
  \/ input.dest \in input.fs.files
InvalidDestinationErrors ==
  {Err("Expect absolute file path for dest option.", ""),
   Err("dest exists, but not directory!", "")}

\* C10: with an empty, relative or non-directory dest the call fails with
\* InvalidDestination (its only step is the throw) and nothing is opened: no
\* request, no listener on the token, no timer, no change to the file system.
C10_InvalidDestination ==
  InvalidDest =>
    /\ pc \in {"start", "thrown"}
    /\ pc = "start" => (ENABLED downloadThrows /\ ~ENABLED download)
    /\ pc = "thrown" => (IsDefined(thrown) /\ Get(thrown) \in InvalidDestinationErrors)
    /\ req.state = "none" /\ req.timeout = 0
    /\ listener = "none"
    /\ timer = Undefined /\ finishTimer = "none"
    /\ ~IsDefined(res) /\ ~IsDefined(stream)
    /\ fs = input.fs
    /\ promise = Pending
\* C10 witness: the call threw for a dest that exists as a regular file.
C10_Witness == pc = "thrown" /\ input.dest \in input.fs.files

\* C9: a response is taken as a success iff its status is in [200,300) or is
\* 1223; for any other status the operation is rejected with BadStatus(code)
\* and the session never reports progress, creates a hash, attaches a sink or
\* creates a file.
SuccessStatus(code) == code \in 200..299 \/ code = 1223
C9_BadStatus ==
  IsDefined(res) =>
    LET code == Get(res).statusCode
    IN /\ ~SuccessStatus(code) =>
            /\ Rejected(BadStatus(code))
            /\ resState = "unread"
            /\ progress = <<>> /\ logged = <<>>
            /\ ~IsDefined(hash) /\ hashed = <<>>
            /\ ~IsDefined(stream) /\ streamState = "none" /\ written = <<>>
            /\ fs.files = input.fs.files
       /\ SuccessStatus(code) =>
            /\ ~Rejected(BadStatus(code))
            /\ resState # "unread" \/ Rejected(UnknownExtract)
\* C9 witness: a 404 was answered and, later, the request failed as well.
C9_Witness ==
  IsDefined(res) /\ Get(res).statusCode = 404 /\ req.destroyed

\* The digest of a sequence of chunks, computed from the chunks alone.
RECURSIVE DigestOf(_, _)
DigestOf(h, chunks) ==
  IF chunks = <<>> THEN HexDigest(h)
  ELSE DigestOf(HashUpdate(h, Head(chunks)), Tail(chunks))
ReceivedDigest == DigestOf(CreateHash("md5").state, received)
\* Verification is active: an algorithm was given and a well-formed,
\* non-empty etag was extracted from a success response.
VerificationActive ==
  IsDefined(input.etagAlgorithm) /\ IsDefined(etag) /\ Get(etag) # <<>>
SinkIntact ==
  /\ written = received
  /\ IsDefined(stream)
  /\ Get(stream).kind = "file" => Get(stream).path \in fs.files

\* C3: with verification active the operation is fulfilled only if the hex
\* digest of all received chunks equals the extracted etag; a sink 'finish'
\* that finds the operation unsettled, finished unset and the digest
\* different rejects with the integrity error; and nothing is rolled back:
\* the file and the bytes written stay as they are.
C3_Integrity ==
  /\ [](VerificationActive /\ promise.state = "fulfilled" => ReceivedDigest = Get(etag))
  /\ [](VerificationActive /\ Rejected(IntegrityError(Get(input.etagAlgorithm)))
          => SinkIntact)
  /\ [][(/\ streamState = "open" /\ streamState' = "finished"
          /\ ~Settled /\ ~finished
          /\ VerificationActive /\ ReceivedDigest # Get(etag))
        => /\ promise'.state = "rejected"
           /\ promise'.reason = Some(IntegrityError(Get(input.etagAlgorithm)))
           /\ fs' = fs /\ written' = written /\ finishTimer' = finishTimer]_vars
\* C3 witness: a file written in full was refused for its digest and is
\* still there.
C3_Witness ==
  /\ VerificationActive
  /\ Rejected(IntegrityError("md5"))
  /\ written # <<>> /\ SinkIntact
  /\ Get(stream).kind = "file"

\* C5: a connection reset on a request made through a proxying agent is not
\* reported when it happens (the promise is left as it is and the grace timer
\* is armed); it is reported only by the grace timer firing, which rejects an
\* unsettled operation and leaves a settled one as it is.
GraceArmed == IsDefined(timer) /\ Get(timer).state = "armed"
C5_GraceWindow ==
  [][/\ (HasProxy(opts) /\ ~req.destroyed /\ req'.destroyed
          /\ req'.error = Some(ConnReset))
        => (promise' = promise /\ IsDefined(timer') /\ Get(timer').state = "armed")
     /\ (HasProxy(opts) /\ ~Settled /\ promise'.state = "rejected"
          /\ promise'.reason \in {Some(ConnReset), Some(ProxyError(opts, ConnReset))})
        => (GraceArmed /\ Get(timer').state = "fired")
     /\ (GraceArmed /\ timer' # Undefined /\ Get(timer').state = "fired")
        => IF Settled THEN promise' = promise
           ELSE promise'.state = "rejected" /\ promise'.reason = Some(Get(timer).e)]_vars
\* C5 witness: through a proxying agent, the grace timer fired after the
\* finish timer had fulfilled the promise, and the success stands.
C5_Witness ==
  HasProxy(opts) /\ promise.state = "fulfilled" /\ GraceFired /\ finished

\* A proxying agent is in use: the agent of the request has a proxy.
ProxyInUse == opts.agent = Some(ProxyAgent)
ProxyHost == "proxyhost"
Wrapped(e) == Err("Request failed using proxy " \o ProxyHost \o ": " \o e.message, "")
\* The token was cancelled before the response, and the cancellation is what
\* destroyed the request.
CancelledBeforeResponse ==
  listener = "disposed" /\ req.state = "inflight" /\ req.error = Some(AbortError)
NothingWritten ==
  /\ ~IsDefined(res) /\ ~IsDefined(stream) /\ streamState = "none"
  /\ written = <<>>
  /\ fs.files = input.fs.files

\* C7 as claimed: a cancellation before the response headers fails the
\* operation with the Aborted error ('request aborted') whatever the
\* transport is, a proxying agent included.
C7_AbortedAlways ==
  CancelledBeforeResponse => (Rejected(AbortError) /\ NothingWritten)
\* C7 as amended: a cancellation before the response headers fails the
\* operation with the Aborted error when no proxying agent is in use and with
\* the proxy error that wraps 'request aborted' when one is; no file is
\* created and no sink attached; the listener acts at most once (it is
\* registered only for a token and, once disposed, stays disposed).
C7_AbortedOrWrapped ==
  /\ [](CancelledBeforeResponse =>
          /\ Rejected(IF ProxyInUse THEN Wrapped(AbortError) ELSE AbortError)
          /\ NothingWritten)
  /\ [](listener # "none" => input.token)
  /\ [][listener = "disposed" => (listener' = "disposed" /\ ~ENABLED Cancel)]_vars
\* C7 witness: a request through a proxying agent was cancelled before the
\* response.
C7_Witness == CancelledBeforeResponse /\ ProxyInUse /\ Settled

\* The step in which the armed timeout elapses on a live request.
TimeoutErrors == {TimeoutError(0), TimeoutError(TimeoutMs)}
TimedOutStep ==
  req.error = Undefined /\ req'.error = Some(TimeoutError(input.timeout))
TimeoutArmedIffConfigured ==
  req.timeout # 0 <=> (pc = "returned" /\ input.timeout # 0)
NoTimeoutNoTimeoutError ==
  input.timeout = 0 =>
    promise.reason \notin {Some(e) : e \in TimeoutErrors}
                          \cup {Some(Wrapped(e)) : e \in TimeoutErrors}

\* C8 as claimed: the timeout is armed iff a non-zero timeout is configured;
\* when it elapses on an unsettled operation the request is aborted and the
\* operation fails with the Timeout error; without a configured timeout the
\* operation never fails with a Timeout error.
C8_TimeoutAlways ==
  /\ [](TimeoutArmedIffConfigured /\ NoTimeoutNoTimeoutError)
  /\ [][(TimedOutStep /\ ~Settled) =>
          /\ req'.destroyed
          /\ promise'.state = "rejected"
          /\ promise'.reason = Some(TimeoutError(input.timeout))]_vars
\* C8 as amended: as claimed, but through a proxying agent the operation
\* fails with the proxy error that wraps the timeout message.
C8_TimeoutOrWrapped ==
  /\ [](TimeoutArmedIffConfigured /\ NoTimeoutNoTimeoutError)
  /\ [][(TimedOutStep /\ ~Settled) =>
          /\ req'.destroyed
          /\ promise'.state = "rejected"
          /\ promise'.reason =
               Some(IF ProxyInUse THEN Wrapped(TimeoutError(input.timeout))
                    ELSE TimeoutError(input.timeout))]_vars
\* C8 witness: through a proxying agent the armed timeout elapsed on an
\* unsettled operation, which failed with the wrapped timeout error.
C8_Witness ==
  /\ ProxyInUse
  /\ req.error = Some(TimeoutError(TimeoutMs))
  /\ Rejected(Wrapped(TimeoutError(TimeoutMs)))

\* C4 as claimed: once success is recorded (the sink finished, verification
\* passed and the finish timer runs) no error that arrives during the delay
\* turns the outcome into a failure: the pending operation is not rejected.
C4_LateErrorsDiscarded ==
  [][(finishTimer = "armed" /\ ~Settled) => promise'.state # "rejected"]_vars

\* C6 as claimed: through a proxying agent every transport error that
\* settles the operation is delivered as the proxy error, a connection
\* reset included: the raw transport error is never what the caller gets.
C6_ProxyErrorAlways ==
  ProxyInUse => \A e \in TransportErrors : ~Rejected(e)

\* ------------------------------------------------------------ liveness

\* What the scheduling guarantees: the transport answers a request in flight
\* with a response or an error; an armed timer that is not cleared fires; a
\* response that flows ends or fails; a sink that is open finishes or fails.
FairSpec ==
  /\ Spec
  /\ WF_vars(Response \/ (ReqError /\ req.state = "inflight"))
  /\ WF_vars(GraceTimerFire)
  /\ WF_vars(FinishTimerFire)
  /\ WF_vars(ResEnd \/ ResError)
  /\ WF_vars(StreamFinish \/ StreamError)

\* C2: every invocation with a valid dest (one that returned its promise)
\* eventually settles, in particular after a connection reset through an
\* agent whose grace timer the response's 'end' cleared.
C2_EventuallySettles == (pc = "returned") ~> Settled
\* C2 witness: the operation was fulfilled although the request had failed
\* with a connection reset through an agent and 'end' had cleared the grace
\* timer before it fired.
C2_Witness ==
  /\ promise.state = "fulfilled"
  /\ req.error = Some(ConnReset)
  /\ IsDefined(opts.agent)
  /\ timer = Undefined
  /\ resState = "ended"

\* ------------------------------------------------------------ the directory

\* dest is a valid absolute path that does not exist before the call.
MissingDest ==
  /\ input.dest # <<>> /\ input.dest[1] = "/"
  /\ input.dest \notin input.fs.dirs \cup input.fs.files
\* Something happened on the network: the request exists, failed or was
\* answered, or the promise was settled.
NetworkEvent ==
  req.state # "none" \/ IsDefined(req.error) \/ IsDefined(res) \/ Settled

\* C11: for a valid absolute dest that does not exist, the directory and all
\* its missing ancestors are made before the request is opened: no network
\* event happens while the call has not passed the directory step, the step
\* that opens the request finds dest missing and leaves it a directory, and
\* from then on dest is a directory.  (When an ancestor is a regular file the
\* directory cannot be made: the call throws and no request is opened.)
C11_DirBeforeRequest ==
  /\ [](pc # "returned" => ~NetworkEvent)
  /\ [](MissingDest /\ req.state # "none" =>
          \A d \in Ancestors(input.dest) : d \in fs.dirs)
  /\ [][(MissingDest /\ req.state = "none" /\ req'.state # "none") =>
          /\ input.dest \notin fs.dirs
          /\ \A d \in Ancestors(input.dest) : d \in fs'.dirs]_vars
  /\ [](MissingDest /\ pc = "thrown" =>
          /\ input.fs.files \cap Ancestors(input.dest) # {}
          /\ fs = input.fs)
\* C11 witness: nothing of dest existed, the request was answered, and dest
\* and its parent are directories.
C11_Witness ==
  /\ MissingDest /\ input.fs = FsEmpty
  /\ IsDefined(res)
  /\ <<"/", "a">> \in fs.dirs /\ input.dest \in fs.dirs

\* ------------------------------------------------------------ classification

\* The sessions that differ in what the classification reads: every extract
\* option with every url path, answered by a 200 response with every
\* combination of content-disposition and content-type.
ClassifierInputs ==
  {i \in AllInputs :
     \A f \in DOMAIN i \ {"extract", "pathname"} : i[f] = DefaultInput[f]}
ClassifierDispositions ==
  DispositionHeaders
    \cup {[type |-> "attachment", parameters |-> [filename |-> Some(<<"g">>)]]}
ClassifierResponses ==
  [statusCode : {DefaultResponse.statusCode}, etag : {Undefined},
   contentDisposition : Maybe(ClassifierDispositions),
   contentType : Maybe(ContentTypes), contentLength : {Undefined}]
\* The request of such a session is answered.
Classify == ResponseOf(ClassifierResponses)
ClassifierInit == InitWith(ClassifierInputs)
ClassifierNext ==
  \/ download
  \/ Classify
ClassifierSpec == ClassifierInit /\ [][ClassifierNext]_vars

\* The extension hint, from the inputs: the extension of the url path and,
\* only if that is empty, the extension of content-disposition's filename.
UrlExt == ExtName(input.pathname)
FilenameExt ==
  LET d == Get(res).contentDisposition
  IN IF IsDefined(d) /\ IsDefined(Get(d).parameters.filename)
     THEN ExtName(Get(Get(d).parameters.filename))
     ELSE <<>>
ExtHint == IF UrlExt # <<>> THEN UrlExt ELSE FilenameExt
ZipSignal ==
  ExtHint = <<".", "zip">> \/ Get(res).contentType = Some(<<"application/zip">>)
TgzSignal == ExtHint = <<".", "tgz">>
\* The sink that goes with a resolved mode.
SinkKindOf(mode) == IF mode = "false" THEN "file" ELSE mode
ResolvedAs(mode) ==
  /\ extract = mode
  /\ IsDefined(stream) /\ Get(stream).kind = SinkKindOf(mode)
  /\ ~Settled

Unweakened(v) == IF v # <<>> /\ Head(v) = "W/" THEN Tail(v) ELSE v
Quoted(v) == v # <<>> /\ Head(v) = "\"" /\ v[Len(v)] = "\""
Inner(v) == [k \in 1..Max({0, Len(v) - 2}) |-> v[k + 1]]
EtagOf(header) ==
  IF header = Undefined THEN Undefined
  ELSE IF Quoted(Unweakened(Get(header))) THEN Some(Inner(Unweakened(Get(header))))
  ELSE Undefined
NoEtag == etag = Undefined \/ etag = Some(<<>>)
IntegrityErrors == {IntegrityError("md5")}

\* C13: the etag of a success response is the inner value of its etag
\* header after one leading W/ is dropped, if what remains is wrapped in
\* double quotes, and undefined otherwise.  Without an etag (or with an empty
\* one) no hash is created, nothing is hashed, the operation is never
\* rejected for its digest, and a sink 'finish' that finds finished unset
\* schedules the success without any comparison, even if an algorithm was
\* requested.
C13_EtagExtraction ==
  /\ []((IsDefined(res) /\ SuccessStatus(Get(res).statusCode))
          => etag = EtagOf(Get(res).etag))
  /\ [](NoEtag =>
          /\ ~checkEtag /\ hash = Undefined /\ hashed = <<>>
          /\ \A e \in IntegrityErrors : ~Rejected(e))
  /\ [][(NoEtag /\ ~finished /\ streamState = "open" /\ streamState' = "finished")
          => (finishTimer' = "armed" /\ promise' = promise)]_vars
\* C13 witness: an algorithm was requested, the etag header was not quoted,
\* and the download succeeded with its bytes never hashed.
C13_Witness ==
  /\ IsDefined(input.etagAlgorithm)
  /\ IsDefined(res) /\ Get(res).etag = Some(<<"d", "a">>)
  /\ etag = Undefined
  /\ received # <<>> /\ hashed = <<>>
  /\ promise.state = "fulfilled"

\* ------------------------------------------------------------ progress

NonDecreasing(seq) == \A j, k \in 1..Len(seq) : j <= k => seq[j] <= seq[k]
\* The percentages emitted, to onProgress or to the log.
Emitted == progress \o logged
ChunkStep == Len(received') = Len(received) + 1

\* C14: the percentages emitted in a session never decrease from one chunk
\* to the next: each chunk adds its length to cur and total stays what the
\* response's content-length made it.  A percentage is emitted only if the
\* response carried a content-length header; with a numeric one a percentage
\* is emitted for every chunk, without one none ever is.
C14_ProgressMonotone ==
  /\ [](NonDecreasing(Emitted))
  /\ [](Emitted # <<>> => (IsDefined(res) /\ IsDefined(Get(res).contentLength)))
  /\ [](Len(Emitted) = IF IsDefined(total) THEN Len(received) ELSE 0)
  /\ [][ChunkStep =>
          /\ cur' = cur + Len(received'[Len(received')])
          /\ total' = total
          /\ Len(Emitted') <= Len(Emitted) + 1
          /\ SubSeq(Emitted', 1, Len(Emitted)) = Emitted]_vars
  /\ [][IsDefined(stream) => total' = total]_vars
\* C14 witness: two chunks were reported to onProgress, the second with a
\* larger percentage than the first.
C14_Witness ==
  /\ input.onProgress
  /\ Len(progress) = 2 /\ progress[1] < progress[2]

\* An error path has begun: the request, the response or the sink emitted
\* 'error' (a request error waiting in the grace window included, and the
\* cancellation and the timeout, which destroy the request with an error),
\* or the operation was rejected.
ErrorPathBegun ==
  \/ IsDefined(req.error)
  \/ resState = "errored"
  \/ streamState = "errored"
  \/ promise.state = "rejected"

\* C15 as claimed: once an error path has begun, onProgress is never called
\* again in the session, even if the response delivers further chunks.
C15_NoProgressAfterError ==
  [][ErrorPathBegun => progress' = progress]_vars

\* ------------------------------------------------------------ the hash

RECURSIVE SumLen(_)
SumLen(chunks) == IF chunks = <<>> THEN 0 ELSE Len(Head(chunks)) + SumLen(Tail(chunks))

\* C16: while a hash exists, the chunks given to it are the chunks the
\* response delivered, each once and in the order of arrival, and its state
\* is the digest of exactly that sequence; so it is at sink 'finish'.  cur
\* is the sum of the lengths of the chunks delivered.
C16_HashedInOrder ==
  /\ [](IsDefined(hash) =>
          /\ hashed = received
          /\ HexDigest(Get(hash).state) = ReceivedDigest)
  /\ [](cur = SumLen(received))
  /\ [][(ChunkStep /\ IsDefined(hash)) =>
          hashed' = Append(hashed, received'[Len(received')])]_vars
\* C16 witness: two different chunks were hashed in the order they came in
\* and the sink finished.
C16_Witness ==
  /\ IsDefined(hash)
  /\ streamState = "finished"
  /\ received = <<<<2, 3>>, <<1>>>>
  /\ hashed = received /\ cur = 3

\* ------------------------------------------------------------ the result

\* The raw file of the session: directly inside the dest passed in, named by
\* the generated identifier followed by the extension hint.
RawPath == input.dest \o <<"/", "uuid">> \o ExtHint
NewFiles == fs.files \ input.fs.files

\* C17: a fulfilled operation returns the dest passed in when the resolved
\* mode is untar or unzip, and the raw file's path (dest, the generated
\* identifier, the extension hint) in raw mode.  The raw file is the only
\* file the session creates, and it is created only once a response with a
\* success status was classified as raw.
C17_ReturnValue ==
  /\ promise.state = "fulfilled" =>
       promise.value = Some(IF extract \in {"untar", "unzip"} THEN input.dest ELSE RawPath)
  /\ NewFiles # {} =>
       /\ IsDefined(res) /\ SuccessStatus(Get(res).statusCode)
       /\ extract = "false" /\ input.extract = "false"
       /\ IsDefined(stream) /\ Get(stream).kind = "file"
       /\ NewFiles = {RawPath}
  /\ (IsDefined(stream) /\ Get(stream).kind = "file") => NewFiles = {RawPath}
\* C17 witness: a raw download of a url without extension returned the path
\* named after the extension of content-disposition's filename.
C17_Witness ==
  /\ promise.state = "fulfilled"
  /\ UrlExt = <<>>
  /\ promise.value = Some(<<"/", "a", "/", "b", "/", "uuid", ".", "zip">>)
  /\ promise.value[1] \in fs.files

\* ------------------------------------------------------------ 'end'

EndStep == resState = "flowing" /\ resState' = "ended"
\* A connection reset through an agent whose grace timer 'end' cleared.
GraceCleared ==
  /\ req.error = Some(ConnReset) /\ IsDefined(opts.agent)
  /\ resState = "ended" /\ timer = Undefined

\* C18: the response's 'end' settles nothing: it leaves the promise, the
\* finished flag, the sink and the finish timer as they are.  With finished
\* unset it clears the timer, so that a connection reset waiting in its grace
\* window is never reported; with finished set it changes nothing.
C18_EndDoesNotSettle ==
  /\ [][EndStep =>
          /\ promise' = promise /\ finished' = finished
          /\ streamState' = streamState /\ finishTimer' = finishTimer
          /\ IF finished THEN timer' = timer ELSE timer' = Undefined]_vars
  /\ [](GraceCleared => ~Rejected(ConnReset))
  /\ [][GraceCleared => (timer' = Undefined /\ ~finished')]_vars
\* C18 witness: 'end' cleared the grace timer of a connection reset, and the
\* operation was settled later by the sink's error, not by the reset.
C18_Witness ==
  /\ GraceCleared
  /\ Rejected(SinkFailure)

\* ------------------------------------------------------------ finished

FinishStep == streamState = "open" /\ streamState' = "finished"

\* C19: with finished set, the sink's 'finish' does nothing: the hash is
\* neither finalized nor compared, no success is scheduled and the outcome
\* stays what it was.  finished, once set, stays set, and whenever it is set
\* the operation is settled.
C19_FinishedFlag ==
  /\ [][(FinishStep /\ finished) =>
          /\ promise' = promise /\ finishTimer' = finishTimer
          /\ hash' = hash /\ finished' /\ timer' = timer /\ fs' = fs]_vars
  /\ [][finished => finished']_vars
  /\ [](finished => Settled)
\* C19 witness: the sink finished with finished set and a digest that does
\* not match the etag; no integrity error was raised and no success scheduled.
C19_Witness ==
  /\ finished /\ streamState = "finished"
  /\ IsDefined(hash) /\ ReceivedDigest # Get(etag)
  /\ finishTimer = "none"
  /\ Rejected(ConnRefused)

\* ------------------------------------------------------------ the mode

\* extract = true finds none of the signals in the response.
AutoFails == input.extract = "true" /\ ~ZipSignal /\ ~TgzSignal
Classified == IsDefined(res) /\ SuccessStatus(Get(res).statusCode)

\* C20: extract changes at most once, from true to untar or unzip, in the
\* step that classifies the response and attaches the sink, and neither the
\* mode nor the sink changes afterwards; a sink is attached exactly for a
\* success response whose mode could be resolved, and it is the sink of the
\* resolved mode.  When the detection fails the operation is rejected with
\* UnknownExtract and there is no sink, no file, no listener on the response
\* (no chunk is counted or reported) and no hash.
C20_ModeResolvedOnce ==
  /\ [][extract' # extract =>
          /\ extract = "true" /\ extract' \in {"untar", "unzip"}
          /\ ~IsDefined(res) /\ ~IsDefined(stream) /\ IsDefined(stream')]_vars
  /\ [][IsDefined(stream) => (stream' = stream /\ extract' = extract)]_vars
  /\ [](IsDefined(stream) =>
          /\ extract \in {"false", "untar", "unzip"}
          /\ Get(stream).kind = SinkKindOf(extract))
  /\ [](IsDefined(stream) <=> (Classified /\ ~AutoFails))
  /\ []((Classified /\ AutoFails) => Rejected(UnknownExtract))
  /\ [](Rejected(UnknownExtract) =>
          /\ Classified /\ AutoFails /\ extract = "true"
          /\ ~IsDefined(stream) /\ streamState = "none" /\ NewFiles = {}
          /\ resState = "unread" /\ received = <<>> /\ cur = 0
          /\ Emitted = <<>>
          /\ hash = Undefined /\ hashed = <<>>)
\* C20 witness: the detection failed, and a later error of the request
\* found nothing attached.
C20_Witness ==
  /\ Rejected(UnknownExtract)
  /\ IsDefined(req.error)
  /\ ~IsDefined(stream)

====
